---------------------------- MODULE Spec2Model ----------------------------
(***************************************************************************)
(* A model of the e-commerce ETL pipeline (app/etl/pipeline.py) and of the *)
(* workflow that drives it (app/workflows/etl_workflow.py).                *)
(*                                                                         *)
(* A DataFrame is a record [cols, rows]: cols is the set of column names,  *)
(* rows a sequence of functions from cols to cell values.  A CSV file is a *)
(* DataFrame with an `exists' flag.  Numbers are integers (money in cents, *)
(* timestamps in ticks); the missing number (NaN, NaT) and the missing     *)
(* string (None) are distinguished cell values.                            *)
(***************************************************************************)
EXTENDS Integers, Sequences, FiniteSets, TLC

(***************************************************************************)
(* Bounds of the model.                                                    *)
(***************************************************************************)
MaxRuns == 2

TicksPerDay == 2

(***************************************************************************)
(* Cell values.                                                            *)
(***************************************************************************)
NaN == 0 - 999999

Inf == 0 - 999998

NegInf == 0 - 999997

None == "None"

\* the missing email of a CSV cell, and the None that validation assigns
NoEmail == <<"N", "a", "N">>

NoneEmail == <<"N", "o", "n", "e">>

\* a quotient is kept exact, as <<numerator, denominator>>; x/0 is <<1, 0>>
\* (inf) and 0/0 or a quotient of NaN is <<0, 0>> (NaN)
NaNQuot == <<0, 0>>

StringCols == {"name", "description", "sku", "first_name", "last_name",
               "status", "payment_method", "name_category"}

QuotCols == {"average_order_value", "days_between_orders", "avg_unit_price"}

NullOf(c) == IF c \in StringCols THEN None
             ELSE IF c = "email" THEN NoEmail
             ELSE IF c \in QuotCols THEN NaNQuot
             ELSE NaN

IsNaN(v) == v = NaN

(***************************************************************************)
(* Results of a step that may raise: a value or the exception raised.      *)
(***************************************************************************)
EmptyDF == [cols |-> {}, rows |-> <<>>]

Ok(df) == [ok |-> TRUE, df |-> df, err |-> "none"]

Raise(e) == [ok |-> FALSE, df |-> EmptyDF, err |-> e]

(***************************************************************************)
(* Sequence helpers.                                                       *)
(***************************************************************************)
Range(s) == {s[i] : i \in DOMAIN s}

RECURSIVE SumSeq(_)
SumSeq(s) == IF s = <<>> THEN 0 ELSE Head(s) + SumSeq(Tail(s))

RECURSIVE FlattenSeq(_)
FlattenSeq(ss) == IF ss = <<>> THEN <<>> ELSE Head(ss) \o FlattenSeq(Tail(ss))

SelectRows(rows, Keep(_)) == SelectSeq(rows, Keep)

SetMin(S) == CHOOSE x \in S : \A y \in S : x <= y

SetMax(S) == CHOOSE x \in S : \A y \in S : x >= y

RECURSIVE SortedSeq(_)
SortedSeq(S) == IF S = {} THEN <<>> ELSE <<SetMin(S)>> \o SortedSeq(S \ {SetMin(S)})

(***************************************************************************)
(* Column reductions of pandas: NaN cells are skipped; the minimum or      *)
(* maximum of no value is NaN, the sum of no value is 0.                   *)
(***************************************************************************)
ColValues(rows, c) == [i \in DOMAIN rows |-> rows[i][c]]

NonNull(rows, c) == {rows[i][c] : i \in {j \in DOMAIN rows : ~IsNaN(rows[j][c])}}

ColMin(rows, c) == IF NonNull(rows, c) = {} THEN NaN ELSE SetMin(NonNull(rows, c))

ColMax(rows, c) == IF NonNull(rows, c) = {} THEN NaN ELSE SetMax(NonNull(rows, c))

ColSum(rows, c) == SumSeq([i \in DOMAIN rows |-> IF IsNaN(rows[i][c]) THEN 0 ELSE rows[i][c]])

ColCount(rows, c) == Cardinality({i \in DOMAIN rows : ~IsNaN(rows[i][c])})

ColNUnique(rows, c) == Cardinality(NonNull(rows, c))

\* a comparison with NaN is False
Lt(a, b) == ~IsNaN(a) /\ ~IsNaN(b) /\ a < b

Le(a, b) == ~IsNaN(a) /\ ~IsNaN(b) /\ a <= b

FillNa(rows, c, v) == [i \in DOMAIN rows |-> [rows[i] EXCEPT ![c] = IF @ = NullOf(c) THEN v ELSE @]]

WithCol(r, c, v) == [k \in (DOMAIN r) \cup {c} |-> IF k = c THEN v ELSE r[k]]

(***************************************************************************)
(* Validators (extract phase).  Each reads one CSV file of the data        *)
(* directory and returns the cleaned DataFrame or raises.                  *)
(***************************************************************************)
read_csv(f) == IF f.exists THEN Ok([cols |-> f.cols, rows |-> f.rows])
               ELSE Raise("FileNotFoundError")

CategoryRequired == {"category_id", "name", "description", "parent_id"}

read_and_validate_categories(f) ==
    IF ~f.exists THEN Raise("FileNotFoundError")
    ELSE IF ~(CategoryRequired \subseteq f.cols)
    THEN Raise("ValueError: Missing required columns in product_categories.csv")
    ELSE Ok([cols |-> f.cols, rows |-> FillNa(f.rows, "description", "")])

ProductRequired == {"product_id", "name", "price", "category_id", "sku"}

ProductCleaned == {"description", "weight", "is_active"}

read_and_validate_products(f) ==
    IF ~f.exists THEN Raise("FileNotFoundError")
    ELSE IF ~(ProductRequired \subseteq f.cols)
    THEN Raise("ValueError: Missing required columns in products.csv")
    ELSE IF Lt(ColMin(f.rows, "price"), 0)
    THEN Raise("ValueError: Found negative prices in products data")
    ELSE IF ~(ProductCleaned \subseteq f.cols) THEN Raise("KeyError")
    ELSE Ok([cols |-> f.cols,
             rows |-> FillNa(FillNa(FillNa(f.rows, "description", ""), "weight", 0),
                             "is_active", 1)])

(***************************************************************************)
(* The email pattern ^[a-zA-Z0-9._%+-]+@[a-zA-Z0-9.-]+\.[a-zA-Z]{2,}$ over  *)
(* an email given as its sequence of characters.                           *)
(***************************************************************************)
Letters == {"a", "b", "c", "d", "e", "f", "g", "h", "i", "j", "k", "l", "m",
            "n", "o", "p", "q", "r", "s", "t", "u", "v", "w", "x", "y", "z",
            "A", "B", "C", "D", "E", "F", "G", "H", "I", "J", "K", "L", "M",
            "N", "O", "P", "Q", "R", "S", "T", "U", "V", "W", "X", "Y", "Z"}

Digits == {"0", "1", "2", "3", "4", "5", "6", "7", "8", "9"}

LocalChars == Letters \cup Digits \cup {".", "_", "%", "+", "-"}

DomainChars == Letters \cup Digits \cup {".", "-"}

AllIn(e, lo, hi, S) == \A k \in lo..hi : e[k] \in S

email_pattern(e) ==
    \E i \in 2..Len(e) : \E j \in (i + 2)..(Len(e) - 2) :
        /\ e[i] = "@" /\ AllIn(e, 1, i - 1, LocalChars)
        /\ e[j] = "." /\ AllIn(e, i + 1, j - 1, DomainChars)
        /\ AllIn(e, j + 1, Len(e), Letters)

CustomerRequired == {"customer_id", "email", "first_name", "last_name"}

\* a variant that requires the columns it reads only
read_and_validate_customers_lax(f) ==
    IF ~f.exists THEN Raise("FileNotFoundError")
    ELSE IF ~({"customer_id", "email"} \subseteq f.cols)
    THEN Raise("ValueError: Missing required columns in customers.csv")
    ELSE IF \E i \in DOMAIN f.rows : f.rows[i]["email"] = NoEmail
    THEN Raise("TypeError")
    ELSE Ok([cols |-> f.cols,
             rows |-> [i \in DOMAIN f.rows |->
                         IF email_pattern(f.rows[i]["email"]) THEN f.rows[i]
                         ELSE [f.rows[i] EXCEPT !["email"] = NoneEmail]]])

read_and_validate_customers(f) ==
    IF ~f.exists THEN Raise("FileNotFoundError")
    ELSE IF ~(CustomerRequired \subseteq f.cols)
    THEN Raise("ValueError: Missing required columns in customers.csv")
    ELSE IF \E i \in DOMAIN f.rows : f.rows[i]["email"] = NoEmail
    THEN Raise("TypeError")
    ELSE Ok([cols |-> f.cols,
             rows |-> [i \in DOMAIN f.rows |->
                         IF email_pattern(f.rows[i]["email"]) THEN f.rows[i]
                         ELSE [f.rows[i] EXCEPT !["email"] = NoneEmail]]])

OrderRequired == {"order_id", "customer_id", "order_date", "status",
                  "payment_method", "total_amount"}

date_columns == {"order_date", "processing_date", "shipping_date", "delivery_date"}

\* A CSV date cell is <<day, tick of the day>>, the empty cell <<>>; any
\* other text does not parse.  A timestamp is a number of ticks.
Parses(cell) == cell = <<>> \/ (Len(cell) = 2 /\ cell[2] \in 0..(TicksPerDay - 1))

to_datetime(cell) == IF cell = <<>> THEN NaN ELSE cell[1] * TicksPerDay + cell[2]

read_and_validate_orders(f) ==
    IF ~f.exists THEN Raise("FileNotFoundError")
    ELSE IF ~(OrderRequired \subseteq f.cols)
    THEN Raise("ValueError: Missing required columns in orders.csv")
    ELSE IF \E i \in DOMAIN f.rows : \E c \in date_columns \cap f.cols : ~Parses(f.rows[i][c])
    THEN Raise("ValueError: Unknown datetime string format")
    ELSE IF Lt(ColMin(f.rows, "total_amount"), 0)
    THEN Raise("ValueError: Found negative order amounts")
    ELSE Ok([cols |-> f.cols,
             rows |-> [i \in DOMAIN f.rows |->
                         [c \in f.cols |-> IF c \in date_columns
                                           THEN to_datetime(f.rows[i][c])
                                           ELSE f.rows[i][c]]]])

OrderItemRequired == {"order_item_id", "order_id", "product_id", "quantity",
                      "price", "total"}

\* a variant that accepts a quantity of zero
read_and_validate_order_items_zero(f) ==
    IF ~f.exists THEN Raise("FileNotFoundError")
    ELSE IF ~(OrderItemRequired \subseteq f.cols)
    THEN Raise("ValueError: Missing required columns in order_items.csv")
    ELSE IF Lt(ColMin(f.rows, "quantity"), 0)
    THEN Raise("ValueError: Found zero or negative quantities")
    ELSE IF Lt(ColMin(f.rows, "price"), 0)
    THEN Raise("ValueError: Found negative prices")
    ELSE Ok([cols |-> f.cols, rows |-> f.rows])

read_and_validate_order_items(f) ==
    IF ~f.exists THEN Raise("FileNotFoundError")
    ELSE IF ~(OrderItemRequired \subseteq f.cols)
    THEN Raise("ValueError: Missing required columns in order_items.csv")
    ELSE IF Le(ColMin(f.rows, "quantity"), 0)
    THEN Raise("ValueError: Found zero or negative quantities")
    ELSE IF Lt(ColMin(f.rows, "price"), 0)
    THEN Raise("ValueError: Found negative prices")
    ELSE Ok([cols |-> f.cols, rows |-> f.rows])

(***************************************************************************)
(* DataFrame operations of pandas used by the transform phase.             *)
(***************************************************************************)
HasCols(df, cs) == cs \subseteq df.cols

Project(df, cs) == [cols |-> cs, rows |-> [i \in DOMAIN df.rows |-> [c \in cs |-> df.rows[i][c]]]]

\* left.merge(right, on=on, how='left', suffixes=sfx): every left row, in
\* order, once per right row with the same key (NaN keys match each other),
\* or once with null right columns when no right row has its key.  A column
\* of both sides other than the key gets the side's suffix.
Overlap(left, right, on) == (left.cols \cap right.cols) \ {on}

Suffixed(c, ov, sfx) == IF c \in ov THEN c \o sfx ELSE c

MergedCols(left, right, on, sfx) ==
    {Suffixed(c, Overlap(left, right, on), sfx[1]) : c \in left.cols}
    \cup {Suffixed(c, Overlap(left, right, on), sfx[2]) : c \in right.cols \ {on}}

JoinRow(l, r, left, right, on, sfx) ==
    [k \in MergedCols(left, right, on, sfx) |->
        IF \E c \in left.cols : Suffixed(c, Overlap(left, right, on), sfx[1]) = k
        THEN l[CHOOSE c \in left.cols : Suffixed(c, Overlap(left, right, on), sfx[1]) = k]
        ELSE r[CHOOSE c \in right.cols \ {on} :
                   Suffixed(c, Overlap(left, right, on), sfx[2]) = k]]

JoinRows(l, matches, left, right, on, sfx) ==
    IF matches = <<>> THEN <<JoinRow(l, [c \in right.cols |-> NullOf(c)], left, right, on, sfx)>>
    ELSE [j \in DOMAIN matches |-> JoinRow(l, matches[j], left, right, on, sfx)]

\* a variant that joins with how='inner': a left row without a match is dropped
MergeInner(left, right, on, sfx) ==
    [cols |-> MergedCols(left, right, on, sfx),
     rows |-> FlattenSeq([i \in DOMAIN left.rows |->
                 [j \in DOMAIN SelectSeq(right.rows, LAMBDA r : r[on] = left.rows[i][on]) |->
                     JoinRow(left.rows[i],
                             SelectSeq(right.rows, LAMBDA r : r[on] = left.rows[i][on])[j],
                             left, right, on, sfx)]])]

MergeLeft(left, right, on, sfx) ==
    [cols |-> MergedCols(left, right, on, sfx),
     rows |-> FlattenSeq([i \in DOMAIN left.rows |->
                 JoinRows(left.rows[i],
                          SelectSeq(right.rows, LAMBDA r : r[on] = left.rows[i][on]),
                          left, right, on, sfx)])]

\* the group keys of df.groupby(c): the distinct non-null values, sorted
GroupKeys(rows, c) == SortedSeq(NonNull(rows, c))

GroupRows(rows, c, k) == SelectSeq(rows, LAMBDA r : r[c] = k)

RECURSIVE GCD(_, _)
GCD(a, b) == IF b = 0 THEN a ELSE GCD(b, a % b)

\* a / b for non-negative numbers, NaN when either is NaN
Quot(a, b) == IF IsNaN(a) \/ IsNaN(b) THEN NaNQuot
              ELSE IF b = 0 THEN (IF a = 0 THEN NaNQuot ELSE <<1, 0>>)
              ELSE <<a \div GCD(a, b), b \div GCD(a, b)>>

Scale == 10000

\* round(n / d, 4) in units of 1/Scale, ties to even, for d > 0
RoundQuot(n, d) ==
    LET q == (n * Scale) \div d
        r == (n * Scale) % d
    IN IF 2 * r < d THEN q
       ELSE IF 2 * r > d THEN q + 1
       ELSE IF q % 2 = 0 THEN q ELSE q + 1

\* a variant that divides by the cost
ProfitMarginOnCost(price, cost) ==
    IF IsNaN(price) \/ IsNaN(cost) THEN NaN
    ELSE IF cost = 0 THEN (IF price = 0 THEN NaN ELSE Inf)
    ELSE RoundQuot(price - cost, cost)

\* ((price - cost) / price).round(4)
ProfitMargin(price, cost) ==
    IF IsNaN(price) \/ IsNaN(cost) THEN NaN
    ELSE IF price = 0 THEN (IF cost = 0 THEN NaN ELSE IF cost < 0 THEN Inf ELSE NegInf)
    ELSE RoundQuot(price - cost, price)

(***************************************************************************)
(* Transform steps.  Each takes self.dfs and returns self.dfs as the step  *)
(* leaves it, with the exception raised if any.                            *)
(***************************************************************************)
OkT(d) == [ok |-> TRUE, dfs |-> d, err |-> "none"]

RaiseT(d, e) == [ok |-> FALSE, dfs |-> d, err |-> e]

Put(d, name, df) == [n \in (DOMAIN d) \cup {name} |-> IF n = name THEN df ELSE d[n]]

\* df[c] = F(row), for every row
AddCol(df, c, F(_)) ==
    [cols |-> df.cols \cup {c},
     rows |-> [i \in DOMAIN df.rows |-> WithCol(df.rows[i], c, F(df.rows[i]))]]

\* df.groupby(c).agg(...): one row Agg(key, rows of the key) per group key
GroupAgg(rows, c, Agg(_, _)) ==
    [g \in DOMAIN GroupKeys(rows, c) |->
        Agg(GroupKeys(rows, c)[g], GroupRows(rows, c, GroupKeys(rows, c)[g]))]

\* step 1, after the merge: self.dfs['products'] is the merged table already
\* when the margin is computed
add_profit_margin(d, merged) ==
    IF ~HasCols(merged, {"price", "cost"}) THEN RaiseT(Put(d, "products", merged), "KeyError")
    ELSE OkT(Put(d, "products",
                 AddCol(merged, "profit_margin",
                        LAMBDA r : ProfitMargin(r["price"], r["cost"]))))

transform_product_data(d) ==
    add_profit_margin(d, MergeLeft(d["products"],
                                   Project(d["categories"], {"category_id", "name"}),
                                   "category_id", <<"", "_category">>))

\* total - cost * quantity, NaN when any operand is NaN
ItemProfit(r) == IF IsNaN(r["total"]) \/ IsNaN(r["cost"]) \/ IsNaN(r["quantity"]) THEN NaN
                 ELSE r["total"] - r["cost"] * r["quantity"]

OrderMetricsRow(k, grp) ==
    [order_id |-> k, total |-> ColSum(grp, "total"), profit |-> ColSum(grp, "profit"),
     quantity |-> ColSum(grp, "quantity")]

order_metrics(items_with_products) ==
    [cols |-> {"order_id", "total", "profit", "quantity"},
     rows |-> GroupAgg(items_with_products.rows, "order_id", OrderMetricsRow)]

\* step 2, after the merge of the items with the products' cost
order_revenue_of(d, merged) ==
    IF ~HasCols(merged, {"total", "cost", "quantity", "order_id"}) THEN RaiseT(d, "KeyError")
    ELSE OkT(Put(d, "orders",
                 MergeLeft(d["orders"], order_metrics(AddCol(merged, "profit", ItemProfit)),
                           "order_id", <<"", "_calculated">>)))

calculate_order_revenue(d) ==
    IF ~HasCols(d["products"], {"product_id", "cost"}) THEN RaiseT(d, "KeyError")
    ELSE order_revenue_of(d, MergeLeft(d["order_items"],
                                       Project(d["products"], {"product_id", "cost"}),
                                       "product_id", <<"_x", "_y">>))

\* a variant that leaves out only the returned orders
QualifyingStatusButReturned == {"Delivered", "In Transit", "Shipped", "Cancelled", "Pending"}

QualifyingStatus == {"Delivered", "In Transit", "Shipped"}

\* (last - first).dt.days
DaysBetween(first, last) == IF IsNaN(first) \/ IsNaN(last) THEN NaN
                            ELSE (last - first) \div TicksPerDay

CustomerMetricsOf(k, n, ltv, first, last) ==
    [customer_id |-> k, total_orders |-> n, lifetime_value |-> ltv,
     first_order_date |-> first, last_order_date |-> last,
     average_order_value |-> Quot(ltv, n),
     days_between_orders |-> Quot(DaysBetween(first, last), n)]

\* a variant that counts the orders that have a total
CustomerMetricsRowCountsTotals(k, grp) ==
    CustomerMetricsOf(k, ColCount(grp, "total"), ColSum(grp, "total"),
                      ColMin(grp, "order_date"), ColMax(grp, "order_date"))

CustomerMetricsRow(k, grp) ==
    CustomerMetricsOf(k, ColCount(grp, "order_id"), ColSum(grp, "total"),
                      ColMin(grp, "order_date"), ColMax(grp, "order_date"))

customer_metrics(qualifying) ==
    [cols |-> {"customer_id", "total_orders", "lifetime_value", "first_order_date",
               "last_order_date", "average_order_value", "days_between_orders"},
     rows |-> GroupAgg(qualifying, "customer_id", CustomerMetricsRow)]

\* a variant that joins the metrics with how='inner'
enrich_customer_data_inner(d) ==
    IF ~HasCols(d["orders"], {"status", "customer_id", "order_id", "total", "order_date"})
    THEN RaiseT(d, "KeyError")
    ELSE OkT(Put(d, "customers",
                 [MergeLeft(d["customers"],
                            customer_metrics(SelectSeq(d["orders"].rows,
                                                       LAMBDA r : r["status"] \in QualifyingStatus)),
                            "customer_id", <<"_x", "_y">>)
                    EXCEPT !.rows = SelectSeq(@, LAMBDA r : ~IsNaN(r["total_orders"]))]))

enrich_customer_data(d) ==
    IF ~HasCols(d["orders"], {"status", "customer_id", "order_id", "total", "order_date"})
    THEN RaiseT(d, "KeyError")
    ELSE OkT(Put(d, "customers",
                 MergeLeft(d["customers"],
                           customer_metrics(SelectSeq(d["orders"].rows,
                                                      LAMBDA r : r["status"] \in QualifyingStatus)),
                           "customer_id", <<"_x", "_y">>)))

\* lexicographic order of tuples of numbers of one length
RECURSIVE LexLeq(_, _)
LexLeq(a, b) == IF a = <<>> THEN TRUE
                ELSE IF Head(a) # Head(b) THEN Head(a) < Head(b)
                ELSE LexLeq(Tail(a), Tail(b))

LexMin(S) == CHOOSE x \in S : \A y \in S : LexLeq(x, y)

RECURSIVE SortedTuples(_)
SortedTuples(S) == IF S = {} THEN <<>> ELSE <<LexMin(S)>> \o SortedTuples(S \ {LexMin(S)})

ExcludedStatus == {"Cancelled", "Returned"}

\* pd.Grouper(key='order_date', freq='D'): the midnight of the timestamp's day
DayFloor(t) == (t \div TicksPerDay) * TicksPerDay

DailyKey(r) == <<DayFloor(r["order_date"]), r["product_id"], r["category_id"]>>

\* groupby drops the rows with a null group key
HasDailyKey(r) == ~IsNaN(r["order_date"]) /\ ~IsNaN(r["product_id"]) /\ ~IsNaN(r["category_id"])

DailySalesRow(k, grp) ==
    [order_date |-> k[1], product_id |-> k[2], category_id |-> k[3],
     units_sold |-> ColSum(grp, "quantity"),
     revenue |-> ColSum(grp, "total"),
     order_count |-> ColNUnique(grp, "order_id"),
     avg_unit_price |-> Quot(ColSum(grp, "total"), ColSum(grp, "quantity"))]

DailyGroups(keyed, keys) ==
    [g \in DOMAIN keys |->
        DailySalesRow(keys[g], SelectSeq(keyed, LAMBDA r : DailyKey(r) = keys[g]))]

daily_sales_groupby(keyed) ==
    [cols |-> {"order_date", "product_id", "category_id", "units_sold", "revenue",
               "order_count", "avg_unit_price"},
     rows |-> DailyGroups(keyed, SortedTuples({DailyKey(keyed[i]) : i \in DOMAIN keyed}))]

\* step 4, after the two merges
daily_sales_of(d, joined) ==
    IF ~HasCols(joined, {"status", "order_date", "product_id", "category_id",
                         "quantity", "total", "order_id"})
    THEN RaiseT(d, "KeyError")
    ELSE OkT(Put(d, "daily_sales",
                 daily_sales_groupby(
                     SelectSeq(SelectSeq(joined.rows,
                                         LAMBDA r : r["status"] \notin ExcludedStatus),
                               HasDailyKey))))

aggregate_daily_sales(d) ==
    IF ~HasCols(d["orders"], {"order_id", "order_date", "status"})
       \/ ~HasCols(d["products"], {"product_id", "category_id"})
    THEN RaiseT(d, "KeyError")
    ELSE daily_sales_of(d,
             MergeLeft(MergeLeft(d["order_items"],
                                 Project(d["orders"], {"order_id", "order_date", "status"}),
                                 "order_id", <<"_x", "_y">>),
                       Project(d["products"], {"product_id", "category_id"}),
                       "product_id", <<"_x", "_y">>))

\* pd.date_range(start, end, freq='D'): start, start + 1 day, ... up to end
date_range(start, end) ==
    [i \in 1..(IF end < start THEN 0 ELSE ((end - start) \div TicksPerDay) + 1) |->
        start + (i - 1) * TicksPerDay]

DaysPerWeek == 7

\* day 0 of the model's calendar is a Monday (dayofweek 0)
DayOfWeek(t) == (t \div TicksPerDay) % DaysPerWeek

dim_time_of(dates) ==
    [cols |-> {"date", "day_of_week", "is_weekend", "is_holiday"},
     rows |-> [i \in DOMAIN dates |->
                 [date |-> dates[i],
                  day_of_week |-> DayOfWeek(dates[i]),
                  is_weekend |-> DayOfWeek(dates[i]) \in {5, 6},
                  is_holiday |-> FALSE]]]

time_dimension_of(d, start_date, end_date) ==
    IF IsNaN(start_date) \/ IsNaN(end_date)
    THEN RaiseT(d, "ValueError: Neither start nor end can be NaT")
    ELSE OkT(Put(d, "dim_time", dim_time_of(date_range(start_date, end_date))))

generate_time_dimension(d) ==
    time_dimension_of(d, ColMin(d["orders"].rows, "order_date"),
                      ColMax(d["orders"].rows, "order_date"))

(***************************************************************************)
(* The phases of ETLPipeline as functions of the data directory and of     *)
(* self.dfs.  A step that raises leaves self.dfs as the steps before it    *)
(* made it.                                                                *)
(***************************************************************************)
NoDfs == [n \in {} |-> EmptyDF]

\* self.dfs[name] = validator(), unless an earlier validator raised
ReadInto(before, name, res) ==
    IF ~before.ok THEN before
    ELSE IF ~res.ok THEN RaiseT(before.dfs, res.err)
    ELSE OkT(Put(before.dfs, name, res.df))

extract(dir) ==
    ReadInto(ReadInto(ReadInto(ReadInto(ReadInto(OkT(NoDfs),
        "categories", read_and_validate_categories(dir["categories"])),
        "products", read_and_validate_products(dir["products"])),
        "customers", read_and_validate_customers(dir["customers"])),
        "orders", read_and_validate_orders(dir["orders"])),
        "order_items", read_and_validate_order_items(dir["order_items"]))

\* the next step runs unless an earlier one raised
Then(before, step(_)) == IF before.ok THEN step(before.dfs) ELSE before

transform(d) ==
    Then(Then(Then(Then(transform_product_data(d),
        calculate_order_revenue),
        enrich_customer_data),
        aggregate_daily_sales),
        generate_time_dimension)

\* a variant that loads the fact tables first
LoadPlanFactsFirst ==
    << [table |-> "orders",                  df |-> "orders",      if_exists |-> "append"],
       [table |-> "order_items",             df |-> "order_items", if_exists |-> "append"],
       [table |-> "daily_sales_aggregation", df |-> "daily_sales", if_exists |-> "append"],
       [table |-> "dim_time",                df |-> "dim_time",    if_exists |-> "replace"],
       [table |-> "product_categories",      df |-> "categories",  if_exists |-> "replace"],
       [table |-> "products",                df |-> "products",    if_exists |-> "replace"],
       [table |-> "customers",               df |-> "customers",   if_exists |-> "replace"] >>

\* the _bulk_insert_df calls of _load_dimension_tables, then _load_fact_tables
LoadPlan ==
    << [table |-> "dim_time",                df |-> "dim_time",    if_exists |-> "replace"],
       [table |-> "product_categories",      df |-> "categories",  if_exists |-> "replace"],
       [table |-> "products",                df |-> "products",    if_exists |-> "replace"],
       [table |-> "customers",               df |-> "customers",   if_exists |-> "replace"],
       [table |-> "orders",                  df |-> "orders",      if_exists |-> "append"],
       [table |-> "order_items",             df |-> "order_items", if_exists |-> "append"],
       [table |-> "daily_sales_aggregation", df |-> "daily_sales", if_exists |-> "append"] >>

WhTables == {LoadPlan[k].table : k \in DOMAIN LoadPlan}

\* a variant that appends whatever the mode
to_sql_append(old, rows, if_exists) == old \o rows

\* df.to_sql(table, if_exists=...): the table's rows after a successful write
to_sql(old, rows, if_exists) == IF if_exists = "replace" THEN rows ELSE old \o rows

\* the table's rows after a write that raised: the write is rolled back, or
\* (replace mode) the table was already dropped and recreated empty
FailedWrite(old, if_exists) == IF if_exists = "replace" THEN {old, <<>>} ELSE {old}

(***************************************************************************)
(* Quality Reporter (etl_workflow.py).                                     *)
(***************************************************************************)
IsNullCell(c, v) == IF c = "email" THEN v \in {NoEmail, NoneEmail} ELSE v = NullOf(c)

CountRows(rows, P(_)) == Cardinality({i \in DOMAIN rows : P(rows[i])})

\* a discount is a number of hundredths: DiscountOne is the discount 1
DiscountOne == 100

Contains(e, ch) == \E i \in DOMAIN e : e[i] = ch

check_data_quality(table_name, df, now) ==
    LET v1 == IF "price" \in df.cols
              THEN [negative_prices |-> CountRows(df.rows, LAMBDA r : Lt(r["price"], 0))]
              ELSE <<>>
        v2 == IF "quantity" \in df.cols
              THEN [invalid_quantities |-> CountRows(df.rows, LAMBDA r : Le(r["quantity"], 0))]
              ELSE <<>>
        v3 == IF "discount" \in df.cols
              THEN [invalid_discounts |->
                      CountRows(df.rows, LAMBDA r : Lt(r["discount"], 0)
                                                    \/ Lt(DiscountOne, r["discount"]))]
              ELSE <<>>
        v4 == IF table_name = "orders"
              THEN [future_dates |-> CountRows(df.rows, LAMBDA r : Lt(now, r["order_date"]))]
              ELSE <<>>
        v5 == IF table_name = "customers"
              THEN [invalid_emails |-> CountRows(df.rows, LAMBDA r : ~Contains(r["email"], "@"))]
              ELSE <<>>
    IN IF table_name = "orders" /\ "order_date" \notin df.cols THEN Raise("KeyError")
       ELSE IF table_name = "customers" /\ "email" \notin df.cols THEN Raise("KeyError")
       ELSE IF table_name = "customers"
               /\ \E i \in DOMAIN df.rows : IsNullCell("email", df.rows[i]["email"])
       THEN Raise("TypeError")
       ELSE Ok([total_records |-> Len(df.rows),
                invalid_records |-> 0,
                missing_values |-> [c \in df.cols |->
                                      CountRows(df.rows, LAMBDA r : IsNullCell(c, r[c]))],
                validation_errors |-> <<>>,
                business_rule_violations |-> v1 @@ v2 @@ v3 @@ v4 @@ v5])

ReportedTables == <<"categories", "products", "customers", "orders", "order_items">>

NoResults == [record_counts |-> <<>>, quality_metrics |-> <<>>]

\* the loop of process_data over the tables of pipeline.dfs
AddMetrics(acc, t, n, m) ==
    [record_counts |-> Put(acc.record_counts, t, n),
     quality_metrics |-> Put(acc.quality_metrics, t, m)]

RECURSIVE quality_loop(_, _, _, _)
quality_next(d, now, k, acc, m) ==
    IF ~m.ok THEN Raise(m.err)
    ELSE quality_loop(d, now, k + 1,
                      AddMetrics(acc, ReportedTables[k], Len(d[ReportedTables[k]].rows), m.df))

quality_loop(d, now, k, acc) ==
    IF k > Len(ReportedTables) THEN Ok(acc)
    ELSE IF ReportedTables[k] \notin DOMAIN d THEN quality_loop(d, now, k + 1, acc)
    ELSE quality_next(d, now, k, acc,
                      check_data_quality(ReportedTables[k], d[ReportedTables[k]], now))

(***************************************************************************)
(* Data directories.  A file is a DataFrame with an `exists' flag.         *)
(***************************************************************************)
Cat(id, name) ==
    [category_id |-> id, name |-> name, description |-> None, parent_id |-> NaN]

Prod(id, price, cost, cat) ==
    [product_id |-> id, name |-> "p", price |-> price, cost |-> cost, category_id |-> cat,
     sku |-> "s", description |-> None, weight |-> NaN, is_active |-> NaN]

Cust(id, email) ==
    [customer_id |-> id, email |-> email, first_name |-> "f", last_name |-> "l"]

Ord(id, cust, date, status, amount) ==
    [order_id |-> id, customer_id |-> cust, order_date |-> date, status |-> status,
     payment_method |-> "card", total_amount |-> amount]

Item(id, ord, prod, qty, price, total) ==
    [order_item_id |-> id, order_id |-> ord, product_id |-> prod, quantity |-> qty,
     price |-> price, total |-> total, discount |-> 0]

CatCols == DOMAIN Cat(1, "c")

ProdCols == DOMAIN Prod(1, 1, 1, 1)

CustCols == DOMAIN Cust(1, <<>>)

OrdCols == DOMAIN Ord(1, 1, <<>>, "s", 1)

ItemCols == DOMAIN Item(1, 1, 1, 1, 1, 1)

File(cols, rows) == [exists |-> TRUE, cols |-> cols, rows |-> rows]

Dir(cats, prods, custs, ords, items) ==
    [categories  |-> File(CatCols, cats),
     products    |-> File(ProdCols, prods),
     customers   |-> File(CustCols, custs),
     orders      |-> File(OrdCols, ords),
     order_items |-> File(ItemCols, items)]

FileNames == {"categories", "products", "customers", "orders", "order_items"}

GoodEmail == <<"a", "@", "b", ".", "i", "o">>

NoTldEmail == <<"a", "@", "b">>

NoAtEmail == <<"a", "b">>

\* two directories that pass validation; DirB holds a malformed email
DirA == Dir(<<Cat(1, "Toys")>>,
            <<Prod(1, 10, 4, 1)>>,
            <<Cust(1, GoodEmail)>>,
            <<Ord(1, 1, <<0, 1>>, "Delivered", 20)>>,
            <<Item(1, 1, 1, 2, 10, 20)>>)

DirB == Dir(<<Cat(1, "Toys"), Cat(2, "Books")>>,
            <<Prod(1, 10, 4, 1), Prod(2, 5, 5, 2)>>,
            <<Cust(1, GoodEmail), Cust(2, NoTldEmail)>>,
            <<Ord(2, 2, <<1, 0>>, "Shipped", 5), Ord(3, 1, <<2, 1>>, "Cancelled", 10)>>,
            <<Item(2, 2, 2, 1, 5, 5), Item(3, 3, 1, 1, 10, 10)>>)

\* one defect of a directory: a file removed, a column removed, a cell changed
DropFile(dir, f) == [dir EXCEPT ![f] = [exists |-> FALSE, cols |-> {}, rows |-> <<>>]]

DropCol(dir, f, c) ==
    [dir EXCEPT ![f] = [exists |-> TRUE, cols |-> @.cols \ {c},
                        rows |-> [i \in DOMAIN @.rows |->
                                    [k \in (DOMAIN @.rows[i]) \ {c} |-> @.rows[i][k]]]]]

SetCell(dir, f, i, c, v) == [dir EXCEPT ![f].rows[i][c] = v]

\* the cells whose change breaks a hard business rule
HardViolations == { <<"products", "price", 0 - 5>>, <<"orders", "total_amount", 0 - 1>>,
                    <<"order_items", "quantity", 0>>, <<"order_items", "quantity", 0 - 1>>,
                    <<"order_items", "price", 0 - 1>> }

Defective(dir) ==
    {DropFile(dir, f) : f \in FileNames}
    \cup UNION {{DropCol(dir, f, c) : c \in dir[f].cols} : f \in FileNames}
    \cup {SetCell(dir, h[1], Len(dir[h[1]].rows), h[2], h[3]) : h \in HardViolations}

Dirs == {DirA, DirB} \cup Defective(DirA)

(***************************************************************************)
(* Data directories of the transform checks: every file present with all   *)
(* its columns (but for the optional cost), and rows that cover unresolved *)
(* and duplicate keys, null categories, a zero price, malformed and        *)
(* missing emails, excluded orders and times of day.                       *)
(***************************************************************************)
MaxRows == 2

\* the tables of at most n rows of U, in the order of U
Tables(U, n) ==
    UNION {{[i \in 1..k |-> U[f[i]]] :
                f \in {g \in [1..k -> DOMAIN U] : \A i \in 1..(k - 1) : g[i] <= g[i + 1]}} :
           k \in 0..n}

TCategories == {<<Cat(1, "Toys")>>, <<Cat(1, "Toys"), Cat(2, "Books")>>,
                <<Cat(1, "Toys"), Cat(1, "Games")>>}

TProducts == Tables(<<Prod(1, 10, 4, 1), Prod(2, 0, 3, NaN), Prod(2, 3, 1, 2)>>, MaxRows)
             \ {<<>>}

TCustomers == {<<Cust(1, GoodEmail)>>, <<Cust(1, GoodEmail), Cust(2, NoTldEmail)>>,
               <<Cust(1, GoodEmail), Cust(2, NoAtEmail)>>, <<Cust(1, NoEmail)>>}

TOrders == Tables(<<Ord(1, 1, <<0, 1>>, "Delivered", 20), Ord(2, 1, <<2, 0>>, "Cancelled", 10),
                    Ord(2, 2, <<1, 1>>, "Shipped", 5),
                    Ord(3, 1, <<2, 1>>, "In Transit", 7)>>, MaxRows)

TItems == Tables(<<Item(1, 1, 1, 2, 10, 20), Item(2, 1, 2, 1, 5, 5),
                   Item(3, 2, 1, 1, 10, 10), Item(4, 9, 1, 1, 10, 10)>>, MaxRows)

TDirs == {Dir(c, pr, cu, o, i) : c \in TCategories, pr \in TProducts, cu \in TCustomers,
                                 o \in TOrders, i \in TItems}
         \cup {DropCol(Dir(c, <<Prod(1, 10, 4, 1)>>, <<Cust(1, GoodEmail)>>, o, i),
                       "products", "cost") : c \in TCategories, o \in TOrders, i \in TItems}

(***************************************************************************)
(* State.  A pipe is one ETLPipeline object with the call that drives it   *)
(* (main() of pipeline.py, or etl_workflow() of etl_workflow.py).          *)
(***************************************************************************)
VARIABLES
    dir,        \* dir[p]: the data directory as the run of pipe p reads it
    caller,     \* caller[p]: "main" or "workflow"
    pc,         \* pc[p]: the position of pipe p's call
    dfs,        \* dfs[p]: self.dfs
    engine,     \* engine[p]: "none", "open" or "disposed"
    widx,       \* widx[p]: the next entry of LoadPlan to write
    err,        \* err[p]: the exception propagating, or "none"
    log,        \* log[p]: the error-level log entries of the call
    events,     \* events[p]: what the call did so far (history)
    results,    \* results[p]: the value process_data returned
    report,     \* report[p]: the value generate_report returned
    wh,         \* wh[t]: the rows of warehouse table t
    whAtStart,  \* whAtStart[p]: wh when the call of pipe p started (history)
    runs        \* the number of calls started

vars == <<dir, caller, pc, dfs, engine, widx, err, log, events, results, report,
          wh, whAtStart, runs>>

\* the slots of the calls: a slot holds an ETLPipeline object and the call
\* that drives it.  Calls that run one after the other each construct their
\* own ETLPipeline and take the one slot anew; calls that run at the same
\* time have a slot each
OneCall == {1}

TwoCalls == {1, 2}

Pipes == DOMAIN pc

MaxNow == 1

NoDir == [f \in FileNames |-> [exists |-> FALSE, cols |-> {}, rows |-> <<>>]]

NoReport == [written |-> FALSE, record_counts |-> <<>>, quality_metrics |-> <<>>]

Init ==
    /\ dir = [p \in OneCall |-> NoDir]
    /\ caller = [p \in OneCall |-> "main"]
    /\ pc = [p \in OneCall |-> "idle"]
    /\ dfs = [p \in OneCall |-> NoDfs]
    /\ engine = [p \in OneCall |-> "none"]
    /\ widx = [p \in OneCall |-> 1]
    /\ err = [p \in OneCall |-> "none"]
    /\ log = [p \in OneCall |-> <<>>]
    /\ events = [p \in OneCall |-> <<>>]
    /\ results = [p \in OneCall |-> NoResults]
    /\ report = [p \in OneCall |-> NoReport]
    /\ wh = [t \in WhTables |-> <<>>]
    /\ whAtStart = [p \in OneCall |-> wh]
    /\ runs = 0

\* a call starts: main() or etl_workflow() is entered, with the directory d
Start(p, c, d) ==
    /\ pc[p] \in {"idle", "end"}
    /\ runs < MaxRuns
    /\ runs' = runs + 1
    /\ dir' = [dir EXCEPT ![p] = d]
    /\ caller' = [caller EXCEPT ![p] = c]
    /\ pc' = [pc EXCEPT ![p] = IF c = "workflow" THEN "validate_files" ELSE "construct"]
    /\ dfs' = [dfs EXCEPT ![p] = NoDfs]
    /\ engine' = [engine EXCEPT ![p] = "none"]
    /\ widx' = [widx EXCEPT ![p] = 1]
    /\ err' = [err EXCEPT ![p] = "none"]
    /\ log' = [log EXCEPT ![p] = <<>>]
    /\ events' = [events EXCEPT ![p] = <<>>]
    /\ results' = [results EXCEPT ![p] = NoResults]
    /\ report' = [report EXCEPT ![p] = NoReport]
    /\ whAtStart' = [whAtStart EXCEPT ![p] = wh]
    /\ UNCHANGED wh

\* calls run one after the other: a call starts when no other call is running
StartRun(p) ==
    /\ \A q \in Pipes \ {p} : pc[q] = "idle"
    /\ \E c \in {"main", "workflow"} : \E d \in Dirs : Start(p, c, d)

Goto(p, to) == pc' = [pc EXCEPT ![p] = to]

Event(p, e) == events' = [events EXCEPT ![p] = Append(@, e)]

\* validate_data_files: every required file exists
ValidateFilesOk(p) ==
    /\ pc[p] = "validate_files"
    /\ \A f \in FileNames : dir[p][f].exists
    /\ Goto(p, "last_processed")
    /\ UNCHANGED <<dir, caller, dfs, engine, widx, err, log, events, results, report,
                   wh, whAtStart, runs>>

ValidateFilesFail(p) ==
    /\ pc[p] = "validate_files"
    /\ \E f \in FileNames : ~dir[p][f].exists
    /\ err' = [err EXCEPT ![p] = "ValueError: Required file not found"]
    /\ Goto(p, "end")
    /\ UNCHANGED <<dir, caller, dfs, engine, widx, log, events, results, report,
                   wh, whAtStart, runs>>

\* get_last_processed_date: a pipeline of its own reads MAX(order_date) of the
\* orders table and disposes its engine; the workflow does not use the result
GetLastProcessedDate(p) ==
    /\ pc[p] = "last_processed"
    /\ Goto(p, "construct")
    /\ UNCHANGED <<dir, caller, dfs, engine, widx, err, log, events, results, report,
                   wh, whAtStart, runs>>

\* ETLPipeline.__init__
Construct(p) ==
    /\ pc[p] = "construct"
    /\ engine' = [engine EXCEPT ![p] = "open"]
    /\ dfs' = [dfs EXCEPT ![p] = NoDfs]
    /\ Goto(p, "extract")
    /\ UNCHANGED <<dir, caller, widx, err, log, events, results, report, wh, whAtStart, runs>>

\* run() calls extract(), transform(), load() in turn
BeginPhase(p, phase) ==
    /\ pc[p] = phase
    /\ Goto(p, phase \o "ing")
    /\ Event(p, <<"start", phase>>)
    /\ UNCHANGED <<dir, caller, dfs, engine, widx, err, log, results, report,
                   wh, whAtStart, runs>>

BeginExtract(p) == BeginPhase(p, "extract")

BeginTransform(p) == BeginPhase(p, "transform")

BeginLoad(p) == BeginPhase(p, "load")

PhaseOk(p, phase, next, r) ==
    /\ r.ok
    /\ dfs' = [dfs EXCEPT ![p] = r.dfs]
    /\ Goto(p, next)
    /\ Event(p, <<"ok", phase>>)
    /\ UNCHANGED <<dir, caller, engine, widx, err, log, results, report, wh, whAtStart, runs>>

\* a variant whose except clause swallows the error and calls the phase again
PhaseFailRetries(p, phase, r) ==
    /\ ~r.ok
    /\ dfs' = [dfs EXCEPT ![p] = NoDfs]
    /\ log' = [log EXCEPT ![p] = Append(@, <<phase, r.err>>)]
    /\ Goto(p, phase)
    /\ Event(p, <<"fail", phase>>)
    /\ UNCHANGED <<dir, caller, engine, widx, err, results, report, wh, whAtStart, runs>>

\* the phase's except clause logs the error and raises it again
PhaseFail(p, phase, r) ==
    /\ ~r.ok
    /\ dfs' = [dfs EXCEPT ![p] = r.dfs]
    /\ err' = [err EXCEPT ![p] = r.err]
    /\ log' = [log EXCEPT ![p] = Append(@, <<phase, r.err>>)]
    /\ Goto(p, "except")
    /\ Event(p, <<"fail", phase>>)
    /\ UNCHANGED <<dir, caller, engine, widx, results, report, wh, whAtStart, runs>>

ExtractOk(p) ==
    /\ pc[p] = "extracting"
    /\ PhaseOk(p, "extract", "transform", extract(dir[p]))

ExtractFail(p) ==
    /\ pc[p] = "extracting"
    /\ PhaseFail(p, "extract", extract(dir[p]))

TransformOk(p) ==
    /\ pc[p] = "transforming"
    /\ PhaseOk(p, "transform", "load", transform(dfs[p]))

TransformFail(p) ==
    /\ pc[p] = "transforming"
    /\ PhaseFail(p, "transform", transform(dfs[p]))

\* a variant that holds a lock on the warehouse for the length of load(): a
\* call writes only while no other call is between its first and last write
WriteOkUnderLock(p) ==
    /\ pc[p] = "loading"
    /\ widx[p] <= Len(LoadPlan)
    /\ \A q \in Pipes \ {p} : ~(pc[q] = "loading" /\ 1 < widx[q] /\ widx[q] <= Len(LoadPlan))
    /\ LET w == LoadPlan[widx[p]]
       IN /\ wh' = [wh EXCEPT ![w.table] = to_sql(@, dfs[p][w.df].rows, w.if_exists)]
          /\ Event(p, <<"write", w.table, w.if_exists>>)
    /\ widx' = [widx EXCEPT ![p] = @ + 1]
    /\ UNCHANGED <<dir, caller, pc, dfs, engine, err, log, results, report, whAtStart, runs>>

\* one _bulk_insert_df call of load() that succeeds
WriteOk(p) ==
    /\ pc[p] = "loading"
    /\ widx[p] <= Len(LoadPlan)
    /\ LET w == LoadPlan[widx[p]]
       IN /\ wh' = [wh EXCEPT ![w.table] = to_sql(@, dfs[p][w.df].rows, w.if_exists)]
          /\ Event(p, <<"write", w.table, w.if_exists>>)
    /\ widx' = [widx EXCEPT ![p] = @ + 1]
    /\ UNCHANGED <<dir, caller, pc, dfs, engine, err, log, results, report, whAtStart, runs>>

\* a variant in which a failed write rolls the whole load back
WriteFailRollsBack(p) ==
    /\ pc[p] = "loading"
    /\ widx[p] <= Len(LoadPlan)
    /\ wh' = whAtStart[p]
    /\ log' = [log EXCEPT ![p] = @ \o << <<"bulk_insert", LoadPlan[widx[p]].table, "DatabaseError">>,
                                          <<"load", "DatabaseError">> >>]
    /\ events' = [events EXCEPT ![p] = @ \o << <<"failwrite", LoadPlan[widx[p]].table>>,
                                                <<"fail", "load">> >>]
    /\ err' = [err EXCEPT ![p] = "DatabaseError"]
    /\ Goto(p, "except")
    /\ UNCHANGED <<dir, caller, dfs, engine, widx, results, report, whAtStart, runs>>

\* one _bulk_insert_df call whose to_sql raises: _bulk_insert_df logs and raises
\* again, and so does load()
WriteFail(p) ==
    /\ pc[p] = "loading"
    /\ widx[p] <= Len(LoadPlan)
    /\ LET w == LoadPlan[widx[p]]
       IN /\ \E left \in FailedWrite(wh[w.table], w.if_exists) :
                 wh' = [wh EXCEPT ![w.table] = left]
          /\ log' = [log EXCEPT ![p] = @ \o << <<"bulk_insert", w.table, "DatabaseError">>,
                                                <<"load", "DatabaseError">> >>]
          /\ events' = [events EXCEPT ![p] = @ \o << <<"failwrite", w.table>>,
                                                      <<"fail", "load">> >>]
    /\ err' = [err EXCEPT ![p] = "DatabaseError"]
    /\ Goto(p, "except")
    /\ UNCHANGED <<dir, caller, dfs, engine, widx, results, report, whAtStart, runs>>

LoadOk(p) ==
    /\ pc[p] = "loading"
    /\ widx[p] > Len(LoadPlan)
    /\ Goto(p, "finally")
    /\ Event(p, <<"ok", "load">>)
    /\ UNCHANGED <<dir, caller, dfs, engine, widx, err, log, results, report,
                   wh, whAtStart, runs>>

\* a variant whose except clause logs the error and does not raise it again
RunExceptSwallows(p) ==
    /\ pc[p] = "except"
    /\ log' = [log EXCEPT ![p] = Append(@, <<"run", err[p]>>)]
    /\ err' = [err EXCEPT ![p] = "none"]
    /\ Goto(p, "finally")
    /\ UNCHANGED <<dir, caller, dfs, engine, widx, events, results, report,
                   wh, whAtStart, runs>>

\* the except clause of run(): log and raise again
RunExcept(p) ==
    /\ pc[p] = "except"
    /\ log' = [log EXCEPT ![p] = Append(@, <<"run", err[p]>>)]
    /\ Goto(p, "finally")
    /\ UNCHANGED <<dir, caller, dfs, engine, widx, err, events, results, report,
                   wh, whAtStart, runs>>

\* a variant that disposes the engine at the end of the try block only
RunFinallyOnSuccess(p) ==
    /\ pc[p] = "finally"
    /\ engine' = [engine EXCEPT ![p] = IF err[p] = "none" THEN "disposed" ELSE @]
    /\ events' = [events EXCEPT ![p] = IF err[p] = "none"
                                       THEN Append(@, <<"dispose", "run">>) ELSE @]
    /\ Goto(p, IF err[p] = "none" THEN "returned" ELSE "raised")
    /\ UNCHANGED <<dir, caller, dfs, widx, err, log, results, report, wh, whAtStart, runs>>

\* the finally clause of run(): self.engine.dispose()
RunFinally(p) ==
    /\ pc[p] = "finally"
    /\ engine' = [engine EXCEPT ![p] = "disposed"]
    /\ Event(p, <<"dispose", "run">>)
    /\ Goto(p, IF err[p] = "none" THEN "returned" ELSE "raised")
    /\ UNCHANGED <<dir, caller, dfs, widx, err, log, results, report, wh, whAtStart, runs>>

\* main(): returns, or logs the error of run() and raises it again
MainReturn(p) ==
    /\ caller[p] = "main"
    /\ pc[p] = "returned"
    /\ Goto(p, "end")
    /\ UNCHANGED <<dir, caller, dfs, engine, widx, err, log, events, results, report,
                   wh, whAtStart, runs>>

MainExcept(p) ==
    /\ caller[p] = "main"
    /\ pc[p] = "raised"
    /\ log' = [log EXCEPT ![p] = Append(@, <<"main", err[p]>>)]
    /\ Goto(p, "end")
    /\ UNCHANGED <<dir, caller, dfs, engine, widx, err, events, results, report,
                   wh, whAtStart, runs>>

QualityReturns(p, r) == r.ok /\ results' = [results EXCEPT ![p] = r.df]

QualityRaises(p, r) == ~r.ok /\ err' = [err EXCEPT ![p] = r.err]

\* process_data after run() returned: record counts and quality metrics
QualityOk(p) ==
    /\ caller[p] = "workflow"
    /\ pc[p] = "returned"
    /\ \E now \in 0..MaxNow : QualityReturns(p, quality_loop(dfs[p], now, 1, NoResults))
    /\ Goto(p, "pd_finally")
    /\ Event(p, <<"quality", "ok">>)
    /\ UNCHANGED <<dir, caller, dfs, engine, widx, err, log, report, wh, whAtStart, runs>>

\* a variant that checks the quality of the tables before they are loaded
QualityFailBeforeLoad(p) ==
    /\ caller[p] = "workflow"
    /\ pc[p] = "load"
    /\ \E now \in 0..MaxNow : QualityRaises(p, quality_loop(dfs[p], now, 1, NoResults))
    /\ Goto(p, "pd_finally")
    /\ Event(p, <<"quality", "fail">>)
    /\ UNCHANGED <<dir, caller, dfs, engine, widx, log, results, report, wh, whAtStart, runs>>

QualityFail(p) ==
    /\ caller[p] = "workflow"
    /\ pc[p] = "returned"
    /\ \E now \in 0..MaxNow : QualityRaises(p, quality_loop(dfs[p], now, 1, NoResults))
    /\ Goto(p, "pd_finally")
    /\ Event(p, <<"quality", "fail">>)
    /\ UNCHANGED <<dir, caller, dfs, engine, widx, log, results, report, wh, whAtStart, runs>>

\* the finally clause of process_data: pipeline.engine.dispose()
ProcessDataFinally(p) ==
    /\ caller[p] = "workflow"
    /\ pc[p] \in {"raised", "pd_finally"}
    /\ engine' = [engine EXCEPT ![p] = "disposed"]
    /\ Event(p, <<"dispose", "process_data">>)
    /\ Goto(p, IF err[p] = "none" THEN "report" ELSE "end")
    /\ UNCHANGED <<dir, caller, dfs, widx, err, log, results, report, wh, whAtStart, runs>>

\* generate_report renders the record counts and the metrics of every table
GenerateReport(p) ==
    /\ pc[p] = "report"
    /\ report' = [report EXCEPT ![p] = [written |-> TRUE,
                                        record_counts |-> results[p].record_counts,
                                        quality_metrics |-> results[p].quality_metrics]]
    /\ Goto(p, "end")
    /\ UNCHANGED <<dir, caller, dfs, engine, widx, err, log, events, results,
                   wh, whAtStart, runs>>

Step(p) ==
    \/ ValidateFilesOk(p) \/ ValidateFilesFail(p) \/ GetLastProcessedDate(p)
    \/ Construct(p)
    \/ BeginExtract(p) \/ ExtractOk(p) \/ ExtractFail(p)
    \/ BeginTransform(p) \/ TransformOk(p) \/ TransformFail(p)
    \/ BeginLoad(p) \/ WriteOk(p) \/ WriteFail(p) \/ LoadOk(p)
    \/ RunExcept(p) \/ RunFinally(p)
    \/ MainReturn(p) \/ MainExcept(p)
    \/ QualityOk(p) \/ QualityFail(p) \/ ProcessDataFinally(p) \/ GenerateReport(p)

Next == \E p \in Pipes : StartRun(p) \/ Step(p)

Spec == Init /\ [][Next]_vars

(***************************************************************************)
(* The extract and transform phases of one run, over the directories of    *)
(* TDirs: the pipeline is constructed and run() is about to call extract.  *)
(***************************************************************************)
InitT ==
    /\ dir \in {[p \in OneCall |-> IF p = 1 THEN d ELSE NoDir] : d \in TDirs}
    /\ caller = [p \in OneCall |-> "main"]
    /\ pc = [p \in OneCall |-> IF p = 1 THEN "extract" ELSE "idle"]
    /\ dfs = [p \in OneCall |-> NoDfs]
    /\ engine = [p \in OneCall |-> IF p = 1 THEN "open" ELSE "none"]
    /\ widx = [p \in OneCall |-> 1]
    /\ err = [p \in OneCall |-> "none"]
    /\ log = [p \in OneCall |-> <<>>]
    /\ events = [p \in OneCall |-> <<>>]
    /\ results = [p \in OneCall |-> NoResults]
    /\ report = [p \in OneCall |-> NoReport]
    /\ wh = [t \in WhTables |-> <<>>]
    /\ whAtStart = [p \in OneCall |-> wh]
    /\ runs = 1

NextT ==
    \/ BeginExtract(1) \/ ExtractOk(1) \/ ExtractFail(1)
    \/ BeginTransform(1) \/ TransformOk(1) \/ TransformFail(1)

SpecT == InitT /\ [][NextT]_vars

(***************************************************************************)
(* The extract and transform phases of one run over two families of data   *)
(* directories, each varying the files one transform step reads: the       *)
(* customers and their orders (with items that give the orders a total),   *)
(* and the products and their categories (with orders and items).          *)
(***************************************************************************)
EItems == {<<>>, <<Item(1, 1, 1, 2, 10, 20)>>,
           <<Item(1, 1, 1, 2, 10, 20), Item(5, 3, 1, 1, 10, 10)>>}

EOrders == {<<Ord(1, 1, <<0, 1>>, "Delivered", 20)>>,
            <<Ord(1, 1, <<0, 1>>, "Delivered", 20), Ord(2, 1, <<2, 0>>, "Cancelled", 10)>>}

EDirs == {Dir(<<Cat(1, "Toys")>>, <<Prod(1, 10, 4, 1)>>, cu, o, i) :
              cu \in TCustomers, o \in TOrders, i \in EItems}
         \cup {Dir(c, pr, <<Cust(1, GoodEmail)>>, o, i) :
                   c \in TCategories, pr \in TProducts, o \in EOrders, i \in TItems}

InitE ==
    /\ dir \in {[p \in OneCall |-> d] : d \in EDirs}
    /\ caller = [p \in OneCall |-> "main"]
    /\ pc = [p \in OneCall |-> "extract"]
    /\ dfs = [p \in OneCall |-> NoDfs]
    /\ engine = [p \in OneCall |-> "open"]
    /\ widx = [p \in OneCall |-> 1]
    /\ err = [p \in OneCall |-> "none"]
    /\ log = [p \in OneCall |-> <<>>]
    /\ events = [p \in OneCall |-> <<>>]
    /\ results = [p \in OneCall |-> NoResults]
    /\ report = [p \in OneCall |-> NoReport]
    /\ wh = [t \in WhTables |-> <<>>]
    /\ whAtStart = [p \in OneCall |-> wh]
    /\ runs = 1

SpecE == InitE /\ [][NextT]_vars

(***************************************************************************)
(* Two calls of main() at the same time against one warehouse, each with   *)
(* its own ETLPipeline and data directory: both have extracted and         *)
(* transformed their input (steps that touch nothing shared) and are about *)
(* to load.  Nothing in load() or _bulk_insert_df orders the table writes  *)
(* of one call against those of the other.                                 *)
(***************************************************************************)
InitC ==
    /\ dir = [p \in TwoCalls |-> IF p = 1 THEN DirA ELSE DirB]
    /\ caller = [p \in TwoCalls |-> "main"]
    /\ pc = [p \in TwoCalls |-> "load"]
    /\ dfs = [p \in TwoCalls |-> transform(extract(dir[p]).dfs).dfs]
    /\ engine = [p \in TwoCalls |-> "open"]
    /\ widx = [p \in TwoCalls |-> 1]
    /\ err = [p \in TwoCalls |-> "none"]
    /\ log = [p \in TwoCalls |-> <<>>]
    /\ events = [p \in TwoCalls |-> << <<"start", "extract">>, <<"ok", "extract">>,
                                       <<"start", "transform">>, <<"ok", "transform">> >>]
    /\ results = [p \in TwoCalls |-> NoResults]
    /\ report = [p \in TwoCalls |-> NoReport]
    /\ wh = [t \in WhTables |-> <<>>]
    /\ whAtStart = [p \in TwoCalls |-> wh]
    /\ runs = Cardinality(TwoCalls)

NextC ==
    \E p \in Pipes :
        \/ BeginLoad(p) \/ WriteOk(p) \/ WriteFail(p) \/ LoadOk(p)
        \/ RunExcept(p) \/ RunFinally(p) \/ MainReturn(p) \/ MainExcept(p)

SpecC == InitC /\ [][NextC]_vars

(***************************************************************************)
(* The quality check of process_data after a run that loaded its tables,   *)
(* over data directories whose files carry one column more than the        *)
(* pipeline reads: the validators keep such a column, so it is in the      *)
(* table that check_data_quality is given.                                 *)
(***************************************************************************)
RuleCols == {"price", "quantity", "discount", "order_date", "email"}

\* the cells of an added column
QCells(c) == CASE c = "price" -> {0 - 1, 3}
               [] c = "quantity" -> {0, 2}
               [] c = "discount" -> {0 - 1, 0, DiscountOne, DiscountOne + 1}
               [] c = "order_date" -> {0, MaxNow + 1}
               [] c = "email" -> {GoodEmail, NoAtEmail}

AddColumn(d, f, c, v) ==
    [d EXCEPT ![f] = [exists |-> TRUE, cols |-> @.cols \cup {c},
                      rows |-> [i \in DOMAIN @.rows |-> WithCol(@.rows[i], c, v)]]]

QDirs == {d \in {DirA, DirB}
               \cup UNION {UNION {{AddColumn(DirA, f, c, v) : v \in QCells(c)} :
                                      c \in RuleCols \ DirA[f].cols} : f \in FileNames} :
              transform(extract(d).dfs).ok}

\* what run() did when every phase and every write succeeded
RunEvents ==
    << <<"start", "extract">>, <<"ok", "extract">>, <<"start", "transform">>,
       <<"ok", "transform">>, <<"start", "load">> >>
    \o [k \in DOMAIN LoadPlan |-> <<"write", LoadPlan[k].table, LoadPlan[k].if_exists>>]
    \o << <<"ok", "load">>, <<"dispose", "run">> >>

InitQ ==
    /\ dir \in {[p \in OneCall |-> d] : d \in QDirs}
    /\ caller = [p \in OneCall |-> "workflow"]
    /\ pc = [p \in OneCall |-> "returned"]
    /\ dfs = [p \in OneCall |-> transform(extract(dir[p]).dfs).dfs]
    /\ engine = [p \in OneCall |-> "disposed"]
    /\ widx = [p \in OneCall |-> Len(LoadPlan) + 1]
    /\ err = [p \in OneCall |-> "none"]
    /\ log = [p \in OneCall |-> <<>>]
    /\ events = [p \in OneCall |-> RunEvents]
    /\ results = [p \in OneCall |-> NoResults]
    /\ report = [p \in OneCall |-> NoReport]
    /\ wh = [t \in WhTables |->
                dfs[1][LoadPlan[CHOOSE k \in DOMAIN LoadPlan : LoadPlan[k].table = t].df].rows]
    /\ whAtStart = [p \in OneCall |-> [t \in WhTables |-> <<>>]]
    /\ runs = 1

NextQ == QualityOk(1) \/ QualityFail(1) \/ ProcessDataFinally(1) \/ GenerateReport(1)

SpecQ == InitQ /\ [][NextQ]_vars

(***************************************************************************)
(* Properties.                                                             *)
(***************************************************************************)
IsPrefix(s, t) == Len(s) <= Len(t) /\ SubSeq(t, 1, Len(s)) = s

Has(p, e) == \E i \in DOMAIN events[p] : events[p][i] = e

\* the positions of a call after run() has ended
AfterRun == {"returned", "raised", "pd_finally", "report", "end"}

PhaseEvents(p) == SelectSeq(events[p], LAMBDA e : e[1] \in {"start", "ok", "fail"})

WriteEvents(p) == SelectSeq(events[p], LAMBDA e : e[1] = "write")

AllPhases == << <<"start", "extract">>, <<"ok", "extract">>,
                <<"start", "transform">>, <<"ok", "transform">>,
                <<"start", "load">>, <<"ok", "load">> >>

\* C1: in run() the phases extract, transform and load start at most once
\* each and in that order, a phase starts only after the phase before it has
\* completed successfully, and after a phase failed no phase starts: the
\* phase events of a run are a prefix of start/ok extract, start/ok
\* transform, start/ok load, or such a prefix ending with a started phase,
\* followed by the failure of that phase.
C1_PhasesInOrder ==
    \A p \in Pipes :
        \/ IsPrefix(PhaseEvents(p), AllPhases)
        \/ \E k \in {1, 3, 5} :
              PhaseEvents(p) = SubSeq(AllPhases, 1, k) \o << <<"fail", AllPhases[k][2]>> >>

C1_Witness ==
    \E p \in Pipes : pc[p] = "end" /\ Has(p, <<"fail", "transform">>)

\* a hard business rule is violated by a file of the directory
HardRuleViolated(d) ==
    \/ \E i \in DOMAIN d["products"].rows :
          "price" \in d["products"].cols /\ d["products"].rows[i]["price"] # NaN
          /\ d["products"].rows[i]["price"] < 0
    \/ \E i \in DOMAIN d["orders"].rows :
          "total_amount" \in d["orders"].cols /\ d["orders"].rows[i]["total_amount"] # NaN
          /\ d["orders"].rows[i]["total_amount"] < 0
    \/ \E i \in DOMAIN d["order_items"].rows :
          \/ "quantity" \in d["order_items"].cols /\ d["order_items"].rows[i]["quantity"] # NaN
             /\ d["order_items"].rows[i]["quantity"] <= 0
          \/ "price" \in d["order_items"].cols /\ d["order_items"].rows[i]["price"] # NaN
             /\ d["order_items"].rows[i]["price"] < 0

\* C2: when an input table violates a hard business rule (a product price
\* < 0, an order total_amount < 0, an order item quantity <= 0 or price < 0)
\* the run aborts during extraction: extract never completes, a started
\* extract ends in failure, the call ends with an error, and no row is
\* written: the warehouse stays as it was when the call started.
C2_HardRuleAborts ==
    \A p \in Pipes :
        HardRuleViolated(dir[p]) =>
            /\ ~Has(p, <<"ok", "extract">>)
            /\ WriteEvents(p) = <<>>
            /\ wh = whAtStart[p]
            /\ (pc[p] \in AfterRun \cup {"except", "finally"} =>
                    Has(p, <<"fail", "extract">>) /\ err[p] # "none")

C2_Witness ==
    \E p \in Pipes : HardRuleViolated(dir[p]) /\ pc[p] = "end"
                     /\ Has(p, <<"fail", "extract">>)

\* a required file or a required column of a file is missing
RequiredOf(f) == CASE f = "categories" -> {"category_id", "name", "description", "parent_id"}
                   [] f = "products" -> {"product_id", "name", "price", "category_id", "sku"}
                   [] f = "customers" -> {"customer_id", "email", "first_name", "last_name"}
                   [] f = "orders" -> {"order_id", "customer_id", "order_date", "status",
                                       "payment_method", "total_amount"}
                   [] f = "order_items" -> {"order_item_id", "order_id", "product_id",
                                            "quantity", "price", "total"}

InputMissing(d) == \E f \in FileNames : ~d[f].exists \/ ~(RequiredOf(f) \subseteq d[f].cols)

\* C3: when one of the five CSV files or a required column of one is
\* missing, the call fails before any transform step runs and before any
\* warehouse table is written: transform never starts, nothing is written,
\* and once the call is over it has raised.
C3_MissingInputAborts ==
    \A p \in Pipes :
        InputMissing(dir[p]) /\ pc[p] # "idle" =>
            /\ ~Has(p, <<"start", "transform">>)
            /\ WriteEvents(p) = <<>>
            /\ wh = whAtStart[p]
            /\ (pc[p] \in AfterRun => err[p] # "none")

C3_Witness ==
    \E p \in Pipes : \E f \in FileNames :
        /\ dir[p][f].exists /\ ~(RequiredOf(f) \subseteq dir[p][f].cols)
        /\ pc[p] = "end" /\ Has(p, <<"fail", "extract">>)

WriteOrder == << <<"write", "dim_time", "replace">>,
                 <<"write", "product_categories", "replace">>,
                 <<"write", "products", "replace">>,
                 <<"write", "customers", "replace">>,
                 <<"write", "orders", "append">>,
                 <<"write", "order_items", "append">>,
                 <<"write", "daily_sales_aggregation", "append">> >>

\* C4: within one run the warehouse tables are written in the order
\* dim_time, product_categories, products, customers (replace mode), then
\* orders, order_items, daily_sales_aggregation (append mode): the writes of
\* a run are at every moment a prefix of that list, so no fact table is
\* written before the four dimension tables are.
C4_WriteOrder ==
    \A p \in Pipes : IsPrefix(WriteEvents(p), WriteOrder)

C4_Witness ==
    \E p \in Pipes : pc[p] = "end" /\ WriteEvents(p) = WriteOrder

FailedAt(p, k) == Has(p, <<"failwrite", WriteOrder[k][2]>>)

\* the rows a table holds once a run has written rows into it in its mode
Written(p, t, mode, rows) == IF mode = "replace" THEN rows ELSE whAtStart[p][t] \o rows

\* the DataFrame of self.dfs that goes to a warehouse table
SourceOf(t) == CASE t = "dim_time" -> "dim_time"
                 [] t = "product_categories" -> "categories"
                 [] t = "products" -> "products"
                 [] t = "customers" -> "customers"
                 [] t = "orders" -> "orders"
                 [] t = "order_items" -> "order_items"
                 [] t = "daily_sales_aggregation" -> "daily_sales"

\* C5: when the write of the k-th table of the load order fails, no later
\* table is written in that run, the run ends in failure, and the tables
\* written before it keep the contents the run wrote (no rollback).
C5_WriteFailureStops ==
    \A p \in Pipes : \A k \in DOMAIN WriteOrder :
        FailedAt(p, k) =>
            /\ WriteEvents(p) = SubSeq(WriteOrder, 1, k - 1)
            /\ err[p] # "none"
            /\ pc[p] \in {"except", "finally", "raised", "end"}
            /\ \A j \in 1..(k - 1) :
                  wh[WriteOrder[j][2]] =
                      Written(p, WriteOrder[j][2], WriteOrder[j][3],
                              dfs[p][SourceOf(WriteOrder[j][2])].rows)

\* the write of orders failed: the dimension tables are those of this run
\* and the fact tables hold nothing of it
C5_Witness ==
    \E p \in Pipes :
        /\ FailedAt(p, 5) /\ pc[p] = "end"
        /\ wh["customers"] = dfs[p]["customers"].rows /\ wh["customers"] # whAtStart[p]["customers"]
        /\ \A t \in {"orders", "order_items", "daily_sales_aggregation"} : wh[t] = whAtStart[p][t]

\* C6: every execution of run() ends with the engine disposed, whether it
\* succeeded or failed in extract, in transform or at a table write, and no
\* table is written after the engine was disposed.
C6_EngineDisposed ==
    \A p \in Pipes :
        /\ (pc[p] \in AfterRun /\ Has(p, <<"start", "extract">>) => engine[p] = "disposed")
        /\ \A i, j \in DOMAIN events[p] :
              events[p][i][1] = "dispose" /\ events[p][j][1] \in {"write", "failwrite"} => j < i

C6_Witness ==
    \E p \in Pipes : pc[p] = "raised" /\ FailedAt(p, 3) /\ engine[p] = "disposed"

DimTables == {"dim_time", "product_categories", "products", "customers"}

FactTables == {"orders", "order_items", "daily_sales_aggregation"}

\* C7: a successful run leaves every dimension table with exactly the rows
\* the run produced (full replace) and every fact table with the rows it
\* held before followed by the rows of the run (append); a fact table is
\* never updated in place: at every step its old rows stay a prefix of it.
C7_ReplaceAndAppend ==
    /\ [](\A p \in Pipes :
            pc[p] \in AfterRun /\ Has(p, <<"ok", "load">>) =>
                /\ \A t \in DimTables : wh[t] = dfs[p][SourceOf(t)].rows
                /\ \A t \in FactTables : wh[t] = whAtStart[p][t] \o dfs[p][SourceOf(t)].rows)
    /\ [][\A t \in FactTables : IsPrefix(wh[t], wh'[t])]_vars

\* a second successful run, after a first one that loaded other rows
C7_Witness ==
    \E p \in Pipes :
        /\ pc[p] = "end" /\ Has(p, <<"ok", "load">>)
        /\ whAtStart[p]["orders"] # <<>>
        /\ whAtStart[p]["products"] # <<>> /\ whAtStart[p]["products"] # wh["products"]

(***************************************************************************)
(* Properties of the transform phase, over the tables of self.dfs once     *)
(* transform() has completed.                                              *)
(***************************************************************************)
Transformed(p) == Has(p, <<"ok", "transform">>)

Rows(p, name) == dfs[p][name].rows

\* the sum of column c over the rows of the sequence that satisfy P, each
\* row counted once
SumOver(rows, c, P(_)) == SumSeq([i \in DOMAIN rows |-> IF P(rows[i]) THEN rows[i][c] ELSE 0])

ItemsOfOrder(p, id) == SelectSeq(Rows(p, "order_items"), LAMBDA it : it["order_id"] = id)

\* C8: for every input that passes validation and every order with at
\* least one order item, the order's computed total is the sum of total over
\* the order items of that order_id, each counted once, and its computed
\* quantity the sum of their quantities.
C8_OrderTotalIsSumOfItems ==
    \A p \in Pipes :
        Transformed(p) =>
            \A i \in DOMAIN Rows(p, "orders") :
                LET o == Rows(p, "orders")[i]
                IN ItemsOfOrder(p, o["order_id"]) # <<>> =>
                      /\ o["total"] = SumOver(Rows(p, "order_items"), "total",
                                              LAMBDA it : it["order_id"] = o["order_id"])
                      /\ o["quantity"] = SumOver(Rows(p, "order_items"), "quantity",
                                                 LAMBDA it : it["order_id"] = o["order_id"])

\* the order of the item has status Cancelled or Returned
ItemExcluded(p, it) ==
    \E i \in DOMAIN Rows(p, "orders") :
        /\ Rows(p, "orders")[i]["order_id"] = it["order_id"]
        /\ Rows(p, "orders")[i]["status"] \in {"Cancelled", "Returned"}

\* the item is of the day, product and category of a daily sales row
ItemOfRow(p, it, row) ==
    /\ it["product_id"] = row["product_id"]
    /\ \E i \in DOMAIN Rows(p, "orders") :
          /\ Rows(p, "orders")[i]["order_id"] = it["order_id"]
          /\ Rows(p, "orders")[i]["order_date"] # NaN
          /\ Rows(p, "orders")[i]["order_date"] \div TicksPerDay = row["order_date"] \div TicksPerDay
    /\ \E i \in DOMAIN Rows(p, "products") :
          /\ Rows(p, "products")[i]["product_id"] = it["product_id"]
          /\ Rows(p, "products")[i]["category_id"] = row["category_id"]

\* C9: the daily sales table has no contribution from an order item whose
\* order is Cancelled or Returned, at most one row per (day, product_id,
\* category_id), and in each row units_sold is the sum of quantity, revenue
\* the sum of total and order_count the number of distinct order_id over the
\* non-excluded order items of that day, product and category.
C9_DailySalesAggregates ==
    \A p \in Pipes :
        Transformed(p) =>
            LET ds == Rows(p, "daily_sales")
            IN /\ \A i, j \in DOMAIN ds :
                      i # j => <<ds[i]["order_date"], ds[i]["product_id"], ds[i]["category_id"]>>
                               # <<ds[j]["order_date"], ds[j]["product_id"], ds[j]["category_id"]>>
               /\ \A i \in DOMAIN ds :
                      /\ ds[i]["units_sold"] =
                            SumOver(Rows(p, "order_items"), "quantity",
                                    LAMBDA it : ~ItemExcluded(p, it) /\ ItemOfRow(p, it, ds[i]))
                      /\ ds[i]["revenue"] =
                            SumOver(Rows(p, "order_items"), "total",
                                    LAMBDA it : ~ItemExcluded(p, it) /\ ItemOfRow(p, it, ds[i]))
                      /\ ds[i]["order_count"] =
                            Cardinality({it["order_id"] : it \in
                                {x \in Range(Rows(p, "order_items")) :
                                    ~ItemExcluded(p, x) /\ ItemOfRow(p, x, ds[i])}})

\* C10: for every input that passes validation, the sum of revenue over the
\* daily sales rows is the sum of total over the order items whose order
\* status is not Cancelled or Returned: every such item is counted in
\* exactly one daily sales row.
C10_RevenueIsConserved ==
    \A p \in Pipes :
        Transformed(p) =>
            SumOver(Rows(p, "daily_sales"), "revenue", LAMBDA r : TRUE)
                = SumOver(Rows(p, "order_items"), "total", LAMBDA it : ~ItemExcluded(p, it))

\* the calendar day of a timestamp
DayOf(t) == t \div TicksPerDay

OrderDates(p) == NonNull(Rows(p, "orders"), "order_date")

\* C11: for every non-empty orders table, whatever the times of day of its
\* order_date values, the time dimension has exactly one row for each
\* calendar day from the day of the least order_date to the day of the
\* greatest one, both included, and no other row.
C11_TimeDimensionCoversDays ==
    \A p \in Pipes :
        Transformed(p) /\ OrderDates(p) # {} =>
            LET dt == Rows(p, "dim_time")
            IN /\ {DayOf(dt[i]["date"]) : i \in DOMAIN dt}
                      = DayOf(SetMin(OrderDates(p)))..DayOf(SetMax(OrderDates(p)))
               /\ \A i, j \in DOMAIN dt : i # j => DayOf(dt[i]["date"]) # DayOf(dt[j]["date"])

\* the input files are all there with their required columns and break no
\* hard business rule: nothing but an email can make extraction fail
InputSound(d) == ~InputMissing(d) /\ ~HardRuleViolated(d)

\* C12: customer validation never aborts the run because of a malformed
\* email: extraction of an otherwise sound input does not fail, and after it
\* the customers table has as many rows as the input, every row whose email
\* does not match the pattern has a null email, and every row whose email
\* matches it is unchanged.
C12_MalformedEmailIsNulled ==
    \A p \in Pipes :
        InputSound(dir[p]) =>
            /\ ~Has(p, <<"fail", "extract">>)
            /\ pc[p] = "transform" =>
                  LET in == dir[p]["customers"].rows
                      out == Rows(p, "customers")
                  IN /\ Len(out) = Len(in)
                     /\ \A i \in DOMAIN in :
                           IF email_pattern(in[i]["email"])
                           THEN out[i] = in[i]
                           ELSE out[i]["email"] = NoneEmail

\* the customer rows of a directory whose email does not match the pattern
MalformedEmails(d) ==
    CountRows(d["customers"].rows, LAMBDA r : ~email_pattern(r["email"]))

\* C13: in a workflow run that loaded its tables, the workflow produces its
\* report, and the invalid_emails metric of the customers table is the
\* number of input customer rows with a malformed email.
C13_InvalidEmailsCounted ==
    \A p \in Pipes :
        caller[p] = "workflow" /\ pc[p] = "end" /\ Has(p, <<"ok", "load">>) =>
            /\ report[p].written
            /\ report[p].quality_metrics["customers"].business_rule_violations["invalid_emails"]
                  = MalformedEmails(dir[p])

CustomerMetricCols == {"total_orders", "lifetime_value", "first_order_date", "last_order_date",
                       "average_order_value", "days_between_orders"}

\* the customer enrichment step has run
Enriched(p) == "customers" \in DOMAIN dfs[p] /\ "total_orders" \in dfs[p]["customers"].cols

\* the orders of a customer that count for the customer's metrics
QualifyingOrders(p, id) ==
    SelectSeq(Rows(p, "orders"),
              LAMBDA o : o["customer_id"] = id /\ o["status"] \in {"Delivered", "In Transit", "Shipped"})

\* C14: after customer enrichment every customer of the input is still in
\* the customers table, and a customer with no order of status Delivered,
\* In Transit or Shipped has total_orders, lifetime_value, first_order_date,
\* last_order_date, average_order_value and days_between_orders all null.
C14_NoQualifyingOrderGivesNulls ==
    \A p \in Pipes :
        Enriched(p) =>
            LET in == dir[p]["customers"].rows
                out == Rows(p, "customers")
            IN /\ Len(out) = Len(in)
               /\ \A i \in DOMAIN in :
                     /\ out[i]["customer_id"] = in[i]["customer_id"]
                     /\ QualifyingOrders(p, in[i]["customer_id"]) = <<>> =>
                           \A c \in CustomerMetricCols : out[i][c] = NullOf(c)

C14_Witness ==
    \E p \in Pipes :
        /\ Enriched(p) /\ Transformed(p)
        /\ \E i, j \in DOMAIN Rows(p, "customers") :
              /\ QualifyingOrders(p, Rows(p, "customers")[i]["customer_id"]) = <<>>
              /\ Rows(p, "customers")[i]["lifetime_value"] = NaN
              /\ QualifyingOrders(p, Rows(p, "customers")[j]["customer_id"]) # <<>>

\* the sum of the non-null values of column c over a sequence of rows
SumOfNonNull(rows, c) == SumOver(rows, c, LAMBDA r : r[c] # NaN)

\* C15: for every customer with at least one order of status Delivered, In
\* Transit or Shipped, total_orders is the number of those orders,
\* lifetime_value the sum of their totals (an order without a total adds
\* nothing), first_order_date and last_order_date the least and the greatest
\* order_date among them, average_order_value is lifetime_value /
\* total_orders, and days_between_orders is the whole days from the first to
\* the last date divided by total_orders, 0 for a single order; the orders of
\* another status count for nothing.
C15_CustomerMetrics ==
    \A p \in Pipes :
        Enriched(p) =>
            \A i \in DOMAIN Rows(p, "customers") :
                LET c == Rows(p, "customers")[i]
                    q == QualifyingOrders(p, c["customer_id"])
                    dates == {q[k]["order_date"] : k \in DOMAIN q}
                IN q # <<>> =>
                      /\ c["total_orders"] = Len(q)
                      /\ c["lifetime_value"] = SumOfNonNull(q, "total")
                      /\ c["first_order_date"] = SetMin(dates)
                      /\ c["last_order_date"] = SetMax(dates)
                      /\ c["average_order_value"][2] > 0
                      /\ c["average_order_value"][1] * Len(q)
                            = SumOfNonNull(q, "total") * c["average_order_value"][2]
                      /\ c["days_between_orders"][2] > 0
                      /\ c["days_between_orders"][1] * Len(q)
                            = ((SetMax(dates) - SetMin(dates)) \div TicksPerDay)
                                  * c["days_between_orders"][2]
                      /\ (Len(q) = 1 => c["days_between_orders"][1] = 0)

\* a customer with two qualifying orders on different days, one with a total
C15_Witness ==
    \E p \in Pipes :
        /\ Transformed(p)
        /\ \E i \in DOMAIN Rows(p, "customers") :
              /\ Rows(p, "customers")[i]["total_orders"] = 2
              /\ Rows(p, "customers")[i]["lifetime_value"] > 0
              /\ Rows(p, "customers")[i]["days_between_orders"][1] > 0

NoCategory(p, r) ==
    ~\E i \in DOMAIN dir[p]["categories"].rows :
        dir[p]["categories"].rows[i]["category_id"] = r["category_id"]

\* the input has a left-join miss: a product without a category or an order
\* without an order item
HasJoinMiss(d) ==
    \/ \E i \in DOMAIN d["products"].rows :
          ~\E j \in DOMAIN d["categories"].rows :
              d["categories"].rows[j]["category_id"] = d["products"].rows[i]["category_id"]
    \/ \E i \in DOMAIN d["orders"].rows :
          ~\E j \in DOMAIN d["order_items"].rows :
              d["order_items"].rows[j]["order_id"] = d["orders"].rows[i]["order_id"]

QualityChecked(p) == Has(p, <<"quality", "ok">>) \/ Has(p, <<"quality", "fail">>)

\* C18: the quality check never blocks the load.  In process_data no quality
\* metric is computed before the seven table writes of the run are done, and
\* a failure of the quality check or of the report neither prevents nor
\* undoes a write: once the quality check has run, ended well or not, every
\* warehouse table holds what the run wrote into it.
C18_QualityNeverBlocksLoad ==
    \A p \in Pipes :
        QualityChecked(p) =>
            /\ WriteEvents(p) = WriteOrder
            /\ \A i, j \in DOMAIN events[p] :
                  events[p][i][1] = "quality" /\ events[p][j][1] = "write" => j < i
            /\ \A k \in DOMAIN WriteOrder :
                  wh[WriteOrder[k][2]] =
                      Written(p, WriteOrder[k][2], WriteOrder[k][3],
                              dfs[p][SourceOf(WriteOrder[k][2])].rows)

\* a workflow whose quality check failed after the run loaded its tables
C18_Witness ==
    \E p \in Pipes :
        /\ pc[p] = "end" /\ Has(p, <<"quality", "fail">>) /\ ~report[p].written
        /\ wh["customers"] = dfs[p]["customers"].rows /\ wh["customers"] # <<>>
        /\ wh["orders"] # whAtStart[p]["orders"]

\* both calls have loaded all their tables
BothLoaded == \A p \in Pipes : Has(p, <<"ok", "load">>)

\* C19: two runs at the same time against one warehouse are not
\* synchronized.  A run that has a table left to write can write it whatever
\* the other run is doing, and when both runs have loaded, every dimension
\* table is the output of the one run or of the other, table by table (not
\* of one run for all of them), and every fact table holds the rows of both
\* runs, in the one order or the other.
C19_ConcurrentRunsRace ==
    /\ \A p \in Pipes :
          pc[p] = "loading" /\ widx[p] <= Len(LoadPlan) => ENABLED WriteOk(p)
    /\ Cardinality(Pipes) = 2 /\ BothLoaded =>
          /\ \A t \in DimTables : \E p \in Pipes : wh[t] = dfs[p][SourceOf(t)].rows
          /\ \A t \in FactTables : \E p, q \in Pipes :
                /\ p # q
                /\ wh[t] = dfs[p][SourceOf(t)].rows \o dfs[q][SourceOf(t)].rows

\* both runs ended well; products was written last by run 1 and customers
\* by run 2, and the fact tables hold the rows of both
C19_Witness ==
    /\ Cardinality(Pipes) = 2
    /\ \A p \in Pipes : pc[p] = "end" /\ err[p] = "none"
    /\ wh["products"] = dfs[1]["products"].rows
    /\ wh["products"] # dfs[2]["products"].rows
    /\ wh["customers"] = dfs[2]["customers"].rows
    /\ wh["customers"] # dfs[1]["customers"].rows
    /\ Len(wh["orders"]) = Len(dfs[1]["orders"].rows) + Len(dfs[2]["orders"].rows)

PhaseNames == {"extract", "transform", "load"}

\* the error the phase raises on the input of the call
ErrorOf(p, phase) ==
    CASE phase = "extract" -> extract(dir[p]).err
      [] phase = "transform" -> transform(extract(dir[p]).dfs).err
      [] phase = "load" -> "DatabaseError"

\* the entries of the error log that a phase wrote
PhaseLog(p) == SelectSeq(log[p], LAMBDA e : e[1] \in PhaseNames)

\* C20: when a phase of run() raises an error, run() ends with that same
\* error: it is not swallowed, not replaced by another and not turned into a
\* normal return, and the error log of the run holds the error entry of that
\* phase and of no other phase.
C20_PhaseErrorPropagates ==
    \A p \in Pipes : \A phase \in PhaseNames :
        Has(p, <<"fail", phase>>) =>
            /\ err[p] = ErrorOf(p, phase)
            /\ err[p] # "none"
            /\ pc[p] \in {"except", "finally", "raised", "end"}
            /\ PhaseLog(p) = << <<phase, ErrorOf(p, phase)>> >>
            /\ (pc[p] \in {"finally", "raised", "end"} =>
                    \E i \in DOMAIN log[p] : log[p][i] = <<"run", ErrorOf(p, phase)>>)

\* a run whose load failed at a table write, after it ended
C20_Witness ==
    \E p \in Pipes :
        /\ pc[p] = "end" /\ Has(p, <<"fail", "load">>)
        /\ err[p] = "DatabaseError"
        /\ PhaseLog(p) = << <<"load", "DatabaseError">> >>

(***************************************************************************)
(* Properties of the tables each transform step reads.                     *)
(***************************************************************************)
\* the tables of the call's input as the validators return them
Validated(p) == extract(dir[p]).dfs

\* C21: the daily sales aggregation depends on the order, order item and
\* product tables as validated, not on the enriched ones: for every input
\* that passes validation, the daily sales table of the run is the table
\* that the same aggregation gives on the validated tables, as they were
\* before product enrichment and order revenue.
C21_DailySalesFromValidated ==
    \A p \in Pipes :
        Transformed(p) =>
            /\ aggregate_daily_sales(Validated(p)).ok
            /\ Rows(p, "daily_sales") = aggregate_daily_sales(Validated(p)).dfs["daily_sales"].rows

\* the inputs that differ from d in the order items only, or in the products
\* only
OtherInputs(d) ==
    {[d EXCEPT !["order_items"].rows = i] : i \in EItems}
    \cup {[d EXCEPT !["products"].rows = pr] : pr \in TProducts}

\* steps 1 to 3 of the transform on the validated tables of an input
EnrichmentOf(d) ==
    Then(Then(transform_product_data(extract(d).dfs), calculate_order_revenue),
         enrich_customer_data)

\* the columns of the enriched customers table that are computed from the
\* order totals
TotalCols == {"lifetime_value", "average_order_value"}

SameCustomers(r, p) == r.ok => r.dfs["customers"] = dfs[p]["customers"]

\* C22 as stated: customer enrichment depends on the validated order and
\* customer tables only, so an input that differs in the order items or in
\* the products only gives the same enriched customers table.
C22_EnrichmentIgnoresItems ==
    \A p \in Pipes :
        Enriched(p) => \A d \in OtherInputs(dir[p]) : SameCustomers(EnrichmentOf(d), p)

SameButTotals(r, p) ==
    r.ok =>
        /\ r.dfs["customers"].cols = dfs[p]["customers"].cols
        /\ Project(r.dfs["customers"], r.dfs["customers"].cols \ TotalCols)
              = Project(dfs[p]["customers"], dfs[p]["customers"].cols \ TotalCols)
        /\ (r.dfs["orders"] = dfs[p]["orders"] => r.dfs["customers"] = dfs[p]["customers"])

\* C22, amended: customer enrichment reads the customers table and the
\* orders table as the order revenue step left it.  Two inputs that differ
\* in the order items or in the products only, and on which enrichment runs,
\* give enriched customers tables that agree on every column but
\* lifetime_value and average_order_value, and that are equal when the order
\* revenue step gave the same orders table.
C22_EnrichmentReadsOrderTotals ==
    \A p \in Pipes :
        Enriched(p) => \A d \in OtherInputs(dir[p]) : SameButTotals(EnrichmentOf(d), p)

DiffersInTotals(r, p) ==
    /\ r.ok
    /\ \E i \in DOMAIN Rows(p, "customers") :
          /\ r.dfs["customers"].rows[i]["lifetime_value"] # Rows(p, "customers")[i]["lifetime_value"]
          /\ r.dfs["customers"].rows[i]["total_orders"] = Rows(p, "customers")[i]["total_orders"]
          /\ Rows(p, "customers")[i]["total_orders"] # NaN

\* an input with other order items gives a customer another lifetime_value
C22_Witness ==
    \E p \in Pipes :
        /\ Enriched(p) /\ Transformed(p)
        /\ \E d \in OtherInputs(dir[p]) :
              d["products"] = dir[p]["products"] /\ DiffersInTotals(EnrichmentOf(d), p)

\* the business rule of a column
RuleOf(c) == CASE c = "price" -> "negative_prices"
               [] c = "quantity" -> "invalid_quantities"
               [] c = "discount" -> "invalid_discounts"
               [] c = "order_date" -> "future_dates"
               [] c = "email" -> "invalid_emails"

\* the rows of a table whose cell of column c is a number that satisfies Bad
BadCells(df, c, Bad(_)) ==
    Cardinality({i \in DOMAIN df.rows : df.rows[i][c] # NaN /\ Bad(df.rows[i][c])})

\* process_data has run its quality loop
QualityDone(p) == caller[p] = "workflow" /\ pc[p] \in {"pd_finally", "report", "end"}

\* C23: in check_data_quality each business rule applies exactly when its
\* column is in the table, whatever the table's name.  For every table of a
\* loaded run the check raises nothing, the reported rules are those of the
\* columns price, quantity, discount, order_date and email that the table
\* has, negative_prices is the number of rows with price < 0,
\* invalid_quantities the number with quantity <= 0 and invalid_discounts
\* the number with a discount below 0 or above 1 (0 and 1 not counted).
C23_RulesFollowColumns ==
    \A p \in Pipes :
        QualityDone(p) =>
            /\ err[p] = "none"
            /\ \A t \in Range(ReportedTables) :
                  /\ DOMAIN results[p].quality_metrics[t].business_rule_violations
                        = {RuleOf(c) : c \in RuleCols \cap dfs[p][t].cols}
                  /\ "price" \in dfs[p][t].cols =>
                        results[p].quality_metrics[t].business_rule_violations["negative_prices"]
                            = BadCells(dfs[p][t], "price", LAMBDA x : x < 0)
                  /\ "quantity" \in dfs[p][t].cols =>
                        results[p].quality_metrics[t].business_rule_violations["invalid_quantities"]
                            = BadCells(dfs[p][t], "quantity", LAMBDA x : x <= 0)
                  /\ "discount" \in dfs[p][t].cols =>
                        results[p].quality_metrics[t].business_rule_violations["invalid_discounts"]
                            = BadCells(dfs[p][t], "discount", LAMBDA x : x < 0 \/ x > DiscountOne)

\* the metrics of table t are those that check_data_quality gives on df
MetricsOf(p, t, df) ==
    /\ results[p].record_counts[t] = Len(df.rows)
    /\ \E now \in 0..MaxNow :
          results[p].quality_metrics[t] = check_data_quality(t, df, now).df

\* C24: the quality reporter inspects the tables as validated, each on its
\* own.  For each of categories, products, customers, orders and
\* order_items the reported record count and metrics (total_records, null
\* count of each column, violation counts) are those of that table as the
\* validators returned it, and so do not change with another input table.
C24_MetricsOfValidatedTables ==
    \A p \in Pipes :
        QualityDone(p) /\ err[p] = "none" =>
            \A t \in Range(ReportedTables) : MetricsOf(p, t, Validated(p)[t])

\* the costs that the validated products table gives for a product_id
CostsOf(p, id) ==
    {Validated(p)["products"].rows[i]["cost"] :
        i \in {j \in DOMAIN Validated(p)["products"].rows :
                  Validated(p)["products"].rows[j]["product_id"] = id}}

\* total - cost * quantity of an order item; an item whose product_id
\* matches no product has no cost and adds nothing
ProfitOfItem(p, it) ==
    IF CostsOf(p, it["product_id"]) = {} THEN 0
    ELSE it["total"] - (CHOOSE c \in CostsOf(p, it["product_id"]) : TRUE) * it["quantity"]

\* C25: for every validated input and every order with at least one order
\* item, the order's computed profit is the sum, over the order items of
\* that order, each counted once, of total - cost * quantity with the cost
\* of the item's product (where the products table gives the product one
\* cost); an item whose product_id matches no product does not break it.
C25_OrderProfitIsSumOfItems ==
    \A p \in Pipes :
        "orders" \in DOMAIN dfs[p] /\ "profit" \in dfs[p]["orders"].cols =>
            \A i \in DOMAIN Rows(p, "orders") :
                /\ ItemsOfOrder(p, Rows(p, "orders")[i]["order_id"]) # <<>>
                /\ \A k \in DOMAIN Rows(p, "order_items") :
                      Cardinality(CostsOf(p, Rows(p, "order_items")[k]["product_id"])) <= 1
                => Rows(p, "orders")[i]["profit"]
                      = SumSeq([k \in DOMAIN ItemsOfOrder(p, Rows(p, "orders")[i]["order_id"]) |->
                                  ProfitOfItem(p, ItemsOfOrder(p, Rows(p, "orders")[i]["order_id"])[k])])

\* the table has the rows of the validated table, one for one: the same
\* keys in the same number
SameKeys(p, name, key) ==
    ColValues(Rows(p, name), key) = ColValues(Validated(p)[name].rows, key)

\* C26: the transform phase adds no row to and removes no row from a loaded
\* entity table: for every input that passes validation, the products,
\* customers and orders tables after transform have one row for each row of
\* the validated table, with its key, and categories and order_items are
\* as validated.
C26_TransformKeepsRows ==
    \A p \in Pipes :
        Transformed(p) =>
            /\ SameKeys(p, "products", "product_id")
            /\ SameKeys(p, "customers", "customer_id")
            /\ SameKeys(p, "orders", "order_id")
            /\ dfs[p]["categories"] = Validated(p)["categories"]
            /\ dfs[p]["order_items"] = Validated(p)["order_items"]

\* C27: every input that passes extraction also passes transform: for any
\* five tables that the validators accept, a products table without a cost
\* column and an orders table without rows included, the five transform
\* steps complete without error, so that a run fails in extract or in load
\* only.
C27_ExtractedInputTransforms ==
    \A p \in Pipes :
        Has(p, <<"ok", "extract">>) => ~Has(p, <<"fail", "transform">>)

\* the rows of the time dimension whose date is the timestamp t
TimeRowsOf(p, t) == {k \in DOMAIN Rows(p, "dim_time") : Rows(p, "dim_time")[k]["date"] = t}

\* C28: after a successful transform every order_date of a daily sales row
\* is the date of exactly one row of the time dimension, whatever the times
\* of day of the order dates, so that the daily sales join to dim_time on
\* the date without losing a row.
C28_DailySalesJoinTimeDimension ==
    \A p \in Pipes :
        Transformed(p) =>
            \A i \in DOMAIN Rows(p, "daily_sales") :
                Cardinality(TimeRowsOf(p, Rows(p, "daily_sales")[i]["order_date"])) = 1

=============================================================================
